---- MODULE Spec2Model ----
(***************************************************************************)
(* A model of package bobotel (src/tracing.go, src/config.go): the         *)
(* process-wide trace provider registry, its two RWMutexes, and the four   *)
(* exported operations NewConfig, InitializeTraceProvider, NewTracer and   *)
(* ShutdownTraceProvider, run by concurrent goroutines.  Every step that    *)
(* touches shared state or a lock is an action of its own; purely local    *)
(* computation between two such steps is folded into one action.           *)
(***************************************************************************)
EXTENDS Naturals, Sequences, FiniteSets

\* ------------------------------------------------------------------ bounds
\* Providers constructed and NewConfig calls made in one run.
MaxProviders == 2
MaxConfigs == 1
\* RecordError calls made in one run.
MaxCalls == 2
\* Length of the exporter lists the loader's checks are run on.
MaxLen == 2

\* Two goroutines call into the package concurrently.
Threads == {"g1", "g2"}
NoThread == "none"

\* ------------------------------------------------------------ configuration
\* The fields of Config that decide what the core does: the exporter list and
\* the OTLP endpoint kind.  AppID, AppName, OtlpHost, OtlpPort and
\* OtelConsoleFormat only select options handed to the SDK.  "jaeger" stands
\* for any name the switch of InitializeTraceProvider does not list, "udp" for
\* any endpoint kind the switch of newOtlpExporter does not list.
Config(exporters, kind) == [OtelExporters |-> exporters, OtlpEndpointKind |-> kind]

\* The configurations the calls are made with: every branch of the two
\* switches alone, and the two-element lists that succeed or fail at their
\* second element.
Configs ==
  {Config(<<>>, "http"),
   Config(<<"console">>, "http"),
   Config(<<"otlp">>, "http"),
   Config(<<"otlp">>, "grpc"),
   Config(<<"otlp">>, "udp"),
   Config(<<"jaeger">>, "http"),
   Config(<<"console", "otlp">>, "grpc"),
   Config(<<"console", "jaeger">>, "http")}

\* A nil *Config.
NilConfig == [nil |-> TRUE]

\* The zero value Config{} that NewConfig allocates.
ZeroConfig == Config(<<>>, "")

\* What a call returns: nothing yet, nil, or an error with its message and
\* what the message wraps.
NoRes == [kind |-> "none"]
Ok == [kind |-> "ok"]
Err(msg, arg) == [kind |-> "error", msg |-> msg, arg |-> arg]

\* ------------------------------------------------------- spans and errors
\* A trace.Span is an interface value: nil, or the name of a span that answers
\* IsRecording and keeps a log of every method called on it.  An error is an
\* interface value too: nil, or a value whose Error() is its message.
NilSpan == "nil"
SpanIds == {"s1", "s2"}
NewSpan(recording) == [recording |-> recording, log |-> <<>>]
NilErr == [nil |-> TRUE]
Errors == {NilErr, [msg |-> "boom"], [msg |-> "timeout"]}

\* The calls RecordError makes on a span.
IsRecordingCall == [method |-> "IsRecording"]
RecordErrorCall(e) == [method |-> "RecordError", err |-> e]
SetStatusCall(code, description) ==
  [method |-> "SetStatus", code |-> code, description |-> description]

\* The last RecordError call: its arguments, the log of the span before it,
\* how it ended ("returned" or "panic"), and the number of calls so far.
NoRe == [span |-> NilSpan, err |-> NilErr, before |-> <<>>, outcome |-> "none",
         n |-> 0]

\* ------------------------------------------------------ the loader's checks
\* Every exporter list of at most MaxLen names, with an endpoint kind the
\* switch of newOtlpExporter lists and one it does not.
ExporterNames == {"console", "otlp", "jaeger"}
ExporterLists == UNION {[1..n -> ExporterNames] : n \in 0..MaxLen}
ListConfigs == {Config(l, k) : l \in ExporterLists, k \in {"http", "udp"}}

AcceptedValues_OnlyConsole == <<"console">>
\* acceptedValues := []string{"console", "otlp"}
AcceptedValues == <<"console", "otlp">>

\* slices.Contains
Contains(values, v) == \E i \in 1..Len(values) : values[i] = v

\* for _, value := range fieldValues: the first value that is not accepted
\* ends the loop with an error.
RECURSIVE ValidateFrom(_, _)
ValidateFrom(fieldValues, i) ==
  IF i > Len(fieldValues) THEN Ok
  ELSE IF ~Contains(AcceptedValues, fieldValues[i])
    THEN Err("invalid exporter value", fieldValues[i])
  ELSE ValidateFrom(fieldValues, i + 1)

\* otelExportersValidator(v any): v is [type, value].
otelExportersValidator(v) ==
  IF v.type # "[]string"
    THEN Err("unexpected field-value type provided to validator", "")
    ELSE ValidateFrom(v.value, 1)

\* for _, exporter := range exporters: the loop breaks at the first "otlp".
RECURSIVE OtlpFoundFrom(_, _)
OtlpFoundFrom(exporters, i) ==
  IF i > Len(exporters) THEN FALSE
  ELSE IF exporters[i] = "otlp" THEN TRUE
  ELSE OtlpFoundFrom(exporters, i + 1)

\* otlpLoadCondition(f): got is what f.GetStrings returned, [exporters,
\* found, err].
otlpLoadCondition(got) ==
  IF ~got.found \/ got.err
    THEN [value |-> FALSE, err |-> Err("problem getting exporters field value", "")]
    ELSE [value |-> OtlpFoundFrom(got.exporters, 1), err |-> Ok]

\* What the loader's checks made of an exporter list: no check was run.
NoUpstream == [checked |-> FALSE]
\* The two checks run on the exporter list of cf, a []string field that is
\* always found, having a default.
Upstream(cf) ==
  [checked |-> TRUE,
   valid |-> otelExportersValidator([type |-> "[]string", value |-> cf.OtelExporters]),
   otlp |-> otlpLoadCondition([exporters |-> cf.OtelExporters, found |-> TRUE,
                               err |-> FALSE])]

\* The names of an exporter list, as a set.
Names(exporters) == {exporters[i] : i \in 1..Len(exporters)}
\* Two configurations that differ at most in the order and the multiplicity
\* of the names of their exporter lists.
SameNames(cf1, cf2) ==
  /\ Names(cf1.OtelExporters) = Names(cf2.OtelExporters)
  /\ cf1.OtlpEndpointKind = cf2.OtlpEndpointKind

\* ------------------------------------------------------------------- state
VARIABLES
  singletonTraceProvider,  \* 0: nil interface; p > 0: providers[p]
  providers,               \* every provider constructed so far, in order
  traceProviderLock,       \* [w : the writer or NoThread, r : the readers]
  configLock,              \* the same, for defaultConfig
  defaultConfig,           \* 0: nil; k > 0: the struct of the k-th NewConfig
  pc,                      \* per goroutine: where it is in its call
  op,                      \* per goroutine: the function it is in
  c,                       \* InitializeTraceProvider: the resolved *Config
  idx,                     \* InitializeTraceProvider: position in the range loop
  opts,                    \* InitializeTraceProvider: exporters built so far
  res,                     \* the value the finished call returned
  floor,                   \* NewTracer: okSeq when the call started
  made,                    \* InitializeTraceProvider: the provider it constructed
  sd,                      \* ShutdownTraceProvider: what the call did
  okSeq,                   \* newest provider whose Initialize returned nil
  cfgSrc,                  \* InitializeTraceProvider, while it resolves c: its
                           \* arguments and the defaultConfig pointer it read
  spans,                   \* the spans of the caller, by name
  re,                      \* RecordError: the last call and how it ended
  upstream                 \* per goroutine: what the loader's checks made of the
                           \* exporter list its call was given

\* What RecordError and the configuration loader work on; no operation of the
\* provider lifecycle touches it.
sideVars == <<spans, re, upstream>>
spanVars == <<spans, re>>

\* The package-level state and the frames of the calls into the lifecycle.
packageVars == <<singletonTraceProvider, providers, traceProviderLock,
                 configLock, defaultConfig, pc, op, c, idx, opts, res, floor,
                 made, sd, okSeq, cfgSrc>>

vars == <<singletonTraceProvider, providers, traceProviderLock, configLock,
          defaultConfig, pc, op, c, idx, opts, res, floor, made, sd, okSeq,
          cfgSrc, spans, re, upstream>>

\* What a ShutdownTraceProvider call has done so far: the provider it asserted
\* to be an SDK provider (0: none), whether that provider was already shut
\* down, which SDK calls it made and which of them failed, and the effects the
\* provider's exporters had seen when the call took the lock.
NoSd == [target |-> 0, already |-> FALSE, flushCalled |-> FALSE,
         shutdownCalled |-> FALSE, flushErr |-> FALSE, shutdownErr |-> FALSE,
         seen |-> 0]

\* An InitializeTraceProvider call that was given no argument and has read no
\* pointer.
NoSrc == [args |-> <<>>, ptr |-> 0]

FreeLock == [w |-> NoThread, r |-> {}]

\* The package-level variables at process start, and no call under way.
PackageInit ==
  /\ singletonTraceProvider = 0
  /\ providers = <<>>
  /\ traceProviderLock = FreeLock
  /\ configLock = FreeLock
  /\ defaultConfig = 0
  /\ pc = [t \in Threads |-> "idle"]
  /\ op = [t \in Threads |-> "none"]
  /\ c = [t \in Threads |-> NilConfig]
  /\ idx = [t \in Threads |-> 0]
  /\ opts = [t \in Threads |-> <<>>]
  /\ res = [t \in Threads |-> NoRes]
  /\ floor = [t \in Threads |-> 0]
  /\ made = [t \in Threads |-> 0]
  /\ sd = [t \in Threads |-> NoSd]
  /\ okSeq = 0
  /\ cfgSrc = [t \in Threads |-> NoSrc]

Init ==
  /\ PackageInit
  /\ spans = [s \in SpanIds |-> NewSpan(TRUE)]
  /\ re = NoRe
  /\ upstream = [t \in Threads |-> NoUpstream]

\* ------------------------------------------------------------- sync.RWMutex
CanLock(l) == l.w = NoThread /\ l.r = {}
CanRLock(l) == l.w = NoThread
Locked(l, t) == [l EXCEPT !.w = t]
RLocked(l, t) == [l EXCEPT !.r = @ \cup {t}]
Released_Forgets(l, t) == l
\* The deferred Unlock / RUnlock of goroutine t: it gives up what it holds.
Released(l, t) == [w |-> IF l.w = t THEN NoThread ELSE l.w, r |-> l.r \ {t}]

\* -------------------------------------------------- the SDK's TracerProvider
\* A provider is [kind, exporters, wanted, shut, flushes, stops]: kind "noop"
\* (noop.NewTracerProvider) or "sdk" (sdktrace.NewTracerProvider); exporters
\* are the batchers it was built with and wanted the exporter list of the
\* configuration it was built for; shut is the SDK's isShutdown; flushes and
\* stops count what its exporters have observed.
NoopProvider == [kind |-> "noop", exporters |-> <<>>, wanted |-> <<>>,
                 shut |-> FALSE, flushes |-> 0, stops |-> 0]
NewTracerProvider(o, wanted) ==
  [kind |-> "sdk", exporters |-> o, wanted |-> wanted,
   shut |-> FALSE, flushes |-> 0, stops |-> 0]

\* ForceFlush reaches the span processors only while the provider has some:
\* Shutdown drops them.
SdkForceFlush(p) == IF p.shut THEN p ELSE [p EXCEPT !.flushes = @ + 1]
SdkFlushOutcomes(p) == IF p.shut THEN {FALSE} ELSE {FALSE, TRUE}
\* Shutdown stops the processors once; on a provider already shut down it
\* returns nil and does nothing.  A failing Shutdown has shut the provider
\* down all the same.
SdkShutdown(p) == IF p.shut THEN p ELSE [p EXCEPT !.shut = TRUE, !.stops = @ + 1]
SdkShutdownOutcomes(p) == IF p.shut THEN {FALSE} ELSE {FALSE, TRUE}

Effects(p) == p.flushes + p.stops

\* ---------------------------------------------------------------- helpers
Cleared(f, t, v) == [f EXCEPT ![t] = v]

\* The goroutine's call has returned: its deferred unlocks have run and the
\* caller holds the result.
Finish(t, r) ==
  /\ pc' = [pc EXCEPT ![t] = "done"]
  /\ res' = [res EXCEPT ![t] = r]

\* The caller moves on; the frame of the finished call is gone.
Return(t) ==
  /\ pc[t] = "done"
  /\ pc' = [pc EXCEPT ![t] = "idle"]
  /\ res' = Cleared(res, t, NoRes)
  /\ c' = Cleared(c, t, NilConfig)
  /\ idx' = Cleared(idx, t, 0)
  /\ opts' = Cleared(opts, t, <<>>)
  /\ floor' = Cleared(floor, t, 0)
  /\ made' = Cleared(made, t, 0)
  /\ sd' = Cleared(sd, t, NoSd)
  /\ op' = Cleared(op, t, "none")
  /\ cfgSrc' = Cleared(cfgSrc, t, NoSrc)
  /\ UNCHANGED <<singletonTraceProvider, providers, traceProviderLock,
                 configLock, defaultConfig, okSeq>>
  /\ UNCHANGED sideVars

\* ---------------------------------------------------------------- NewTracer
NilTracer == [kind |-> "tracer", from |-> "nil", provider |-> 0]
NoopTracer == [kind |-> "tracer", from |-> "standalone-noop", provider |-> 0]
ProviderTracer(p) == [kind |-> "tracer", from |-> "provider", provider |-> p]

TracerFor_NoFallback(reg) == IF reg # 0 THEN ProviderTracer(reg) ELSE NilTracer
\* if singletonTraceProvider != nil { return singletonTraceProvider.Tracer(..) }
\* else { return NewNoopTracer(..) }
TracerFor(reg) == IF reg # 0 THEN ProviderTracer(reg) ELSE NoopTracer

NtCall(t) ==
  /\ pc[t] = "idle"
  /\ op' = [op EXCEPT ![t] = "NewTracer"]
  /\ pc' = [pc EXCEPT ![t] = "nt_rlock"]
  /\ floor' = [floor EXCEPT ![t] = okSeq]
  /\ UNCHANGED <<singletonTraceProvider, providers, traceProviderLock,
                 configLock, defaultConfig, c, idx, opts, res, sd, okSeq, made>>
  /\ UNCHANGED sideVars
  /\ UNCHANGED cfgSrc

NtRLock(t) ==
  /\ pc[t] = "nt_rlock"
  /\ CanRLock(traceProviderLock)
  /\ traceProviderLock' = RLocked(traceProviderLock, t)
  /\ pc' = [pc EXCEPT ![t] = "nt_read"]
  /\ UNCHANGED <<singletonTraceProvider, providers, configLock, defaultConfig,
                 c, idx, opts, res, floor, sd, okSeq, op, made>>
  /\ UNCHANGED sideVars
  /\ UNCHANGED cfgSrc

NtRead(t) ==
  /\ pc[t] = "nt_read"
  /\ Finish(t, TracerFor(singletonTraceProvider))
  /\ traceProviderLock' = Released(traceProviderLock, t)
  /\ UNCHANGED <<singletonTraceProvider, providers, configLock, defaultConfig,
                 c, idx, opts, floor, sd, okSeq, op, made>>
  /\ UNCHANGED sideVars
  /\ UNCHANGED cfgSrc

\* ---------------------------------------------------------------- NewConfig
\* A NewConfig call, the n-th of the run at most.
NcCallUpTo(t, n) ==
  /\ pc[t] = "idle"
  /\ op' = [op EXCEPT ![t] = "NewConfig"]
  /\ defaultConfig + Cardinality({u \in Threads : pc[u] = "nc_lock"}) < n
  /\ pc' = [pc EXCEPT ![t] = "nc_lock"]
  /\ UNCHANGED <<singletonTraceProvider, providers, traceProviderLock,
                 configLock, defaultConfig, c, idx, opts, res, floor, sd, okSeq, made>>
  /\ UNCHANGED sideVars
  /\ UNCHANGED cfgSrc

NcCall(t) == NcCallUpTo(t, MaxConfigs)

\* configLock.Lock(); defaultConfig = &Config{}; return defaultConfig, with
\* the deferred Unlock: one step, as nothing in it can block once the lock is
\* free.
NcSet(t) ==
  /\ pc[t] = "nc_lock"
  /\ CanLock(configLock)
  /\ defaultConfig' = defaultConfig + 1
  /\ Finish(t, [kind |-> "config", ptr |-> defaultConfig + 1])
  /\ UNCHANGED <<singletonTraceProvider, providers, traceProviderLock,
                 configLock, c, idx, opts, floor, sd, okSeq, op, made>>
  /\ UNCHANGED sideVars
  /\ UNCHANGED cfgSrc

\* ---------------------------------------------------- ShutdownTraceProvider
SdCall(t) ==
  /\ pc[t] = "idle"
  /\ op' = [op EXCEPT ![t] = "ShutdownTraceProvider"]
  /\ pc' = [pc EXCEPT ![t] = "sd_lock"]
  /\ UNCHANGED <<singletonTraceProvider, providers, traceProviderLock,
                 configLock, defaultConfig, c, idx, opts, res, floor, sd, okSeq, made>>
  /\ UNCHANGED sideVars
  /\ UNCHANGED cfgSrc

SdLock_Shared(t) ==
  /\ pc[t] = "sd_lock"
  /\ CanRLock(traceProviderLock)
  /\ traceProviderLock' = RLocked(traceProviderLock, t)
  /\ pc' = [pc EXCEPT ![t] = "sd_assert"]
  /\ UNCHANGED <<singletonTraceProvider, providers, configLock, defaultConfig,
                 c, idx, opts, res, floor, sd, okSeq, op, made>>
  /\ UNCHANGED sideVars
  /\ UNCHANGED cfgSrc

SdLock_Unlocked(t) ==
  /\ pc[t] = "sd_lock"
  /\ pc' = [pc EXCEPT ![t] = "sd_assert"]
  /\ UNCHANGED <<singletonTraceProvider, providers, traceProviderLock,
                 configLock, defaultConfig, c, idx, opts, res, floor, sd,
                 okSeq, op, made>>
  /\ UNCHANGED sideVars
  /\ UNCHANGED cfgSrc

\* traceProviderLock.Lock(); defer traceProviderLock.Unlock()
SdLock(t) ==
  /\ pc[t] = "sd_lock"
  /\ CanLock(traceProviderLock)
  /\ traceProviderLock' = Locked(traceProviderLock, t)
  /\ pc' = [pc EXCEPT ![t] = "sd_assert"]
  /\ UNCHANGED <<singletonTraceProvider, providers, configLock, defaultConfig,
                 c, idx, opts, res, floor, sd, okSeq, op, made>>
  /\ UNCHANGED sideVars
  /\ UNCHANGED cfgSrc

IsSdkProvider_NotNil(reg) == reg # 0
\* singletonTraceProvider.(*sdktrace.TracerProvider): false for the nil
\* interface and for the no-op provider.
IsSdkProvider(reg) == reg # 0 /\ providers[reg].kind = "sdk"

\* The type assertion: an SDK provider is flushed and shut down, anything
\* else returns nil at once.
SdAssert(t) ==
  /\ pc[t] = "sd_assert"
  /\ IF IsSdkProvider(singletonTraceProvider)
       THEN /\ pc' = [pc EXCEPT ![t] = "sd_flush"]
            /\ sd' = [sd EXCEPT ![t] =
                 [NoSd EXCEPT !.target = singletonTraceProvider,
                              !.already = providers[singletonTraceProvider].shut,
                              !.seen = Effects(providers[singletonTraceProvider])]]
            /\ UNCHANGED <<res, traceProviderLock>>
       ELSE /\ Finish(t, Ok)
            /\ traceProviderLock' = Released(traceProviderLock, t)
            /\ UNCHANGED sd
  /\ UNCHANGED <<singletonTraceProvider, providers, configLock, defaultConfig,
                 c, idx, opts, floor, okSeq, op, made>>
  /\ UNCHANGED sideVars
  /\ UNCHANGED cfgSrc

AfterFlush_StopsOnError(failed) == IF failed THEN "done" ELSE "sd_shutdown"
\* The error of ForceFlush is assigned to the blank identifier: whatever it
\* is, the call goes on to Shutdown.
AfterFlush(failed) == "sd_shutdown"

\* _ = sdkTraceProvider.ForceFlush(ctx)
SdFlush(t) ==
  /\ pc[t] = "sd_flush"
  /\ \E failed \in SdkFlushOutcomes(providers[sd[t].target]) :
       /\ sd' = [sd EXCEPT ![t].flushCalled = TRUE, ![t].flushErr = failed]
       /\ pc' = [pc EXCEPT ![t] = AfterFlush(failed)]
  /\ providers' = [providers EXCEPT ![sd[t].target] = SdkForceFlush(@)]
  /\ UNCHANGED <<singletonTraceProvider, traceProviderLock, configLock,
                 defaultConfig, c, idx, opts, res, floor, okSeq, op, made>>
  /\ UNCHANGED sideVars
  /\ UNCHANGED cfgSrc

ShutdownFails_AlsoOnFlush(flushErr, shutdownErr) == flushErr \/ shutdownErr
\* Only the error of Shutdown is returned; that of ForceFlush is dropped.
ShutdownFails(flushErr, shutdownErr) == shutdownErr

RegistryAfterShutdown_Cleared(reg) == 0
\* ShutdownTraceProvider assigns nothing to singletonTraceProvider.
RegistryAfterShutdown(reg) == reg

\* if err := sdkTraceProvider.Shutdown(ctx); err != nil { return wrapped }
\* return nil
SdShutdown(t) ==
  /\ pc[t] = "sd_shutdown"
  /\ \E failed \in SdkShutdownOutcomes(providers[sd[t].target]) :
       /\ Finish(t, IF ShutdownFails(sd[t].flushErr, failed)
                      THEN Err("problem shutting down trace provider", "")
                      ELSE Ok)
       /\ sd' = [sd EXCEPT ![t].shutdownCalled = TRUE, ![t].shutdownErr = failed]
  /\ providers' = [providers EXCEPT ![sd[t].target] = SdkShutdown(@)]
  /\ singletonTraceProvider' = RegistryAfterShutdown(singletonTraceProvider)
  /\ traceProviderLock' = Released(traceProviderLock, t)
  /\ UNCHANGED <<configLock, defaultConfig, c, idx, opts, floor, okSeq, op, made>>
  /\ UNCHANGED sideVars
  /\ UNCHANGED cfgSrc

\* -------------------------------------------------- InitializeTraceProvider
InitPcs == {"init_cfg_rlock", "init_resolved", "init_loop", "init_lock",
            "init_noop_lock"}

\* The arguments of a call: none, or one *Config (which may be nil).
InitArgs == {<<>>} \cup {<<cf>> : cf \in Configs \cup {NilConfig}}

\* What the struct behind defaultConfig may hold when it is read: the zero
\* value NewConfig stored, or whatever the configuration loader has written
\* into it since (src/README.md: config.Load()).
DefaultConfigValues == Configs \cup {ZeroConfig}

ExplicitConfig_Never(args) == FALSE
\* if len(config) > 0
ExplicitConfig(args) == Len(args) > 0

\* The call with arguments args: if len(config) > 0 { c = config[0] } else
\* { configLock.RLock(); ... }
InitCallWith(t, args) ==
  /\ pc[t] = "idle"
  /\ op' = [op EXCEPT ![t] = "InitializeTraceProvider"]
  /\ Len(providers) + Cardinality({u \in Threads : pc[u] \in InitPcs}) < MaxProviders
  /\ cfgSrc' = [cfgSrc EXCEPT ![t] = [args |-> args, ptr |-> 0]]
  /\ IF ExplicitConfig(args)
       THEN /\ c' = [c EXCEPT ![t] = args[1]]
            /\ pc' = [pc EXCEPT ![t] = "init_resolved"]
       ELSE /\ pc' = [pc EXCEPT ![t] = "init_cfg_rlock"]
            /\ UNCHANGED c
  /\ UNCHANGED <<singletonTraceProvider, providers, traceProviderLock,
                 configLock, defaultConfig, idx, opts, res, floor, sd, okSeq, made>>

InitCall(t) ==
  /\ \E args \in InitArgs : InitCallWith(t, args)
  /\ UNCHANGED sideVars

\* configLock.RLock(); defer configLock.RUnlock(); c = defaultConfig
InitCfgRLock(t) ==
  /\ pc[t] = "init_cfg_rlock"
  /\ CanRLock(configLock)
  /\ configLock' = RLocked(configLock, t)
  /\ cfgSrc' = [cfgSrc EXCEPT ![t].ptr = defaultConfig]
  /\ IF defaultConfig = 0
       THEN c' = [c EXCEPT ![t] = NilConfig]
       ELSE \E cf \in DefaultConfigValues : c' = [c EXCEPT ![t] = cf]
  /\ pc' = [pc EXCEPT ![t] = "init_resolved"]
  /\ UNCHANGED <<singletonTraceProvider, providers, traceProviderLock,
                 defaultConfig, idx, opts, res, floor, sd, okSeq, op, made>>
  /\ UNCHANGED sideVars

LoopDone_AfterFirst(i, cf) == i > 1
\* for _, exporter := range c.OtelExporters: the loop is over after the last
\* element.
LoopDone(i, cf) == i > Len(cf.OtelExporters)

NoExporters_Never(cf) == Len(cf.OtelExporters) < 0
\* if len(c.OtelExporters) < 1
NoExporters(cf) == Len(cf.OtelExporters) < 1

RegistryAfterError_Reset(reg) == 0
\* No error return of InitializeTraceProvider assigns singletonTraceProvider.
RegistryAfterError(reg) == reg

\* An error return: the deferred configLock.RUnlock runs, nothing else.
InitFail(t, e) ==
  /\ Finish(t, e)
  /\ configLock' = Released(configLock, t)
  /\ singletonTraceProvider' = RegistryAfterError(singletonTraceProvider)
  /\ UNCHANGED <<providers, traceProviderLock, defaultConfig, c, idx, opts,
                 floor, sd, okSeq, op, made>>

LockBeforeLoop_Taken(l, t) == Locked(l, t)
\* Nothing between the resolution of c and the end of the range loop locks
\* traceProviderLock: the exporters are built with the lock as it is.
LockBeforeLoop(l, t) == l

\* Lines 59-84 up to the first lock: the nil check, resource.Merge (which the
\* SDK may fail), and the choice between the no-op and the exporter path.
InitResolved(t) ==
  /\ pc[t] = "init_resolved"
  /\ \/ /\ c[t] = NilConfig
        /\ InitFail(t, Err("no trace provider configuration provided or found", ""))
     \/ /\ c[t] # NilConfig
        /\ InitFail(t, Err("problem creating tracer provider resources", ""))
     \/ /\ c[t] # NilConfig
        /\ pc' = [pc EXCEPT ![t] =
                    IF NoExporters(c[t]) THEN "init_noop_lock"
                    ELSE IF LoopDone(1, c[t]) THEN "init_lock" ELSE "init_loop"]
        /\ idx' = [idx EXCEPT ![t] = 1]
        /\ traceProviderLock' = LockBeforeLoop(traceProviderLock, t)
        /\ UNCHANGED <<singletonTraceProvider, providers,
                       configLock, defaultConfig, c, opts, res, floor, sd, okSeq, op, made>>
  /\ UNCHANGED sideVars
  \* config is not read past the resolution of c
  /\ cfgSrc' = Cleared(cfgSrc, t, NoSrc)

\* newConsoleExporter: stdouttrace.New with or without pretty printing; the
\* SDK's constructor may fail.
newConsoleExporter(cf) ==
  {[ok |-> TRUE, exporter |-> "console"],
   [ok |-> FALSE, err |-> Err("stdouttrace.New failed", "")]}

\* newOtlpExporter: the switch on c.OtlpEndpointKind, then the constructor's
\* error wrapped.
newOtlpExporter(cf) ==
  IF cf.OtlpEndpointKind \in {"http", "grpc"}
    THEN {[ok |-> TRUE, exporter |-> "otlp"],
          [ok |-> FALSE, err |-> Err("problem creating otlp exporter", "")]}
    ELSE {[ok |-> FALSE,
           err |-> Err("unsupported otlp endpoint kind", cf.OtlpEndpointKind)]}

WithBatcher_Prepends(o, exporter) == <<exporter>> \o o
WithBatcher_KeepsOnePerName(o, exporter) ==
  IF \E i \in 1..Len(o) : o[i] = exporter THEN o ELSE Append(o, exporter)
\* opts = append(opts, sdktrace.WithBatcher(exporter))
WithBatcher(o, exporter) == Append(o, exporter)

\* One iteration of the range loop (lines 86-105).
InitLoop(t) ==
  /\ pc[t] = "init_loop"
  /\ LET exporter == c[t].OtelExporters[idx[t]]
         built == CASE exporter = "console" -> newConsoleExporter(c[t])
                    [] exporter = "otlp" -> newOtlpExporter(c[t])
                    [] OTHER -> {}
         wrap == IF exporter = "console"
                   THEN "problem creating tracer console exporter"
                   ELSE "problem creating tracer otlp exporter"
     IN IF exporter \notin {"console", "otlp"}
          THEN InitFail(t, Err("unsupported exporter found", exporter))
          ELSE \E b \in built :
                 IF b.ok
                   THEN /\ opts' = [opts EXCEPT ![t] = WithBatcher(@, b.exporter)]
                        /\ idx' = [idx EXCEPT ![t] = @ + 1]
                        /\ pc' = [pc EXCEPT ![t] =
                                    IF LoopDone(idx[t] + 1, c[t])
                                      THEN "init_lock" ELSE "init_loop"]
                        /\ UNCHANGED <<singletonTraceProvider, providers,
                                       traceProviderLock, configLock, defaultConfig,
                                       c, res, floor, sd, okSeq, op, made>>
                   ELSE InitFail(t, Err(wrap, b.err))
  /\ UNCHANGED sideVars
  /\ UNCHANGED cfgSrc

Registered_OnlyFirst(old, new) == IF old = 0 THEN new ELSE old
\* singletonTraceProvider = <the new provider>
Registered(old, new) == new

ProvidersAfterSwap_ShutsOld(ps, old, p) ==
  Append(IF old # 0 THEN [ps EXCEPT ![old] = SdkShutdown(SdkForceFlush(@))] ELSE ps, p)
\* The swap constructs the new provider and touches no other.
ProvidersAfterSwap(ps, old, p) == Append(ps, p)

\* A successful registration: traceProviderLock.Lock(), the assignment, and on
\* return the deferred Unlock and RUnlock.  Nothing between Lock and Unlock
\* can block, so the three are one step.
InitSwap(t, p) ==
  /\ CanLock(traceProviderLock)
  /\ providers' = ProvidersAfterSwap(providers, singletonTraceProvider, p)
  /\ singletonTraceProvider' = Registered(singletonTraceProvider, Len(providers) + 1)
  /\ made' = [made EXCEPT ![t] = Len(providers) + 1]
  /\ okSeq' = Len(providers) + 1
  /\ configLock' = Released(configLock, t)
  /\ Finish(t, Ok)
  /\ UNCHANGED <<traceProviderLock, defaultConfig, c, idx, opts, floor, sd, op>>
  /\ UNCHANGED sideVars
  /\ UNCHANGED cfgSrc

\* Lines 78-83: singletonTraceProvider = noop.NewTracerProvider()
InitRegisterNoop(t) ==
  /\ pc[t] = "init_noop_lock"
  /\ InitSwap(t, NoopProvider)

\* Lines 107-112: singletonTraceProvider = sdktrace.NewTracerProvider(opts...)
InitRegister(t) ==
  /\ pc[t] = "init_lock"
  /\ InitSwap(t, NewTracerProvider(opts[t], c[t].OtelExporters))

\* -------------------------------------------------------------- RecordError
\* The result of a step of RecordError: the span's log, and whether the
\* function goes on, has returned or has panicked.
Step(log, outcome) == [log |-> log, outcome |-> outcome]

\* err.Error(): a method call on an interface value, which panics with a nil
\* pointer dereference when the interface is nil.
ErrorOf(err) == IF err = NilErr THEN [ok |-> FALSE] ELSE [ok |-> TRUE, msg |-> err.msg]

\* if span == nil || !span.IsRecording() { return }: IsRecording is called
\* only on a span that is not nil.
Guarded(span, s) == span = NilSpan \/ ~s.recording

\* RecordError(span, err), where s is the span behind a non-nil span value.
RecordError(span, s, err) ==
  LET checked == IF span = NilSpan THEN s.log ELSE Append(s.log, IsRecordingCall)
      attached == Append(checked, RecordErrorCall(err))
      message == ErrorOf(err)
  IN IF Guarded(span, s) THEN Step(checked, "returned")
     ELSE IF ~message.ok THEN Step(attached, "panic")
     ELSE Step(Append(attached, SetStatusCall("Error", message.msg)), "returned")

\* A caller hands RecordError nil or one of its spans, and an error or nil.  A
\* panic ends the run.
CallRecordError ==
  /\ re.outcome # "panic"
  /\ re.n < MaxCalls
  /\ \E span \in {NilSpan} \cup SpanIds, err \in Errors :
       LET s == IF span = NilSpan THEN NewSpan(FALSE) ELSE spans[span]
           r == RecordError(span, s, err)
       IN /\ re' = [span |-> span, err |-> err, before |-> s.log,
                    outcome |-> r.outcome, n |-> re.n + 1]
          /\ spans' = IF span = NilSpan THEN spans
                      ELSE [spans EXCEPT ![span].log = r.log]
  /\ UNCHANGED <<packageVars, upstream>>

\* ------------------------------------------------------------ specification
Next ==
  \E t \in Threads :
    \/ NcCall(t) \/ NcSet(t)
    \/ NtCall(t) \/ NtRLock(t) \/ NtRead(t)
    \/ InitCall(t) \/ InitCfgRLock(t) \/ InitResolved(t) \/ InitLoop(t)
    \/ InitRegisterNoop(t) \/ InitRegister(t)
    \/ SdCall(t) \/ SdLock(t) \/ SdAssert(t) \/ SdFlush(t) \/ SdShutdown(t)
    \/ Return(t)

Spec == Init /\ [][Next]_vars

\* RecordError on its own: the caller's two spans are recording or not, and
\* the package is as at process start.
InitRecordError ==
  /\ PackageInit
  /\ spans \in [SpanIds -> {NewSpan(TRUE), NewSpan(FALSE)}]
  /\ re = NoRe
  /\ upstream = [t \in Threads |-> NoUpstream]

NextRecordError == CallRecordError

\* NewConfig and InitializeTraceProvider alone, with one more NewConfig call
\* than Spec has, so that a default configuration gets replaced.
NextResolve ==
  \E t \in Threads :
    \/ NcCallUpTo(t, MaxConfigs + 1) \/ NcSet(t)
    \/ InitCall(t) \/ InitCfgRLock(t) \/ InitResolved(t) \/ InitLoop(t)
    \/ InitRegisterNoop(t) \/ InitRegister(t)
    \/ Return(t)

SpecResolve == Init /\ [][NextResolve]_vars

\* An InitializeTraceProvider call given a configuration whose exporter list
\* the loader's checks were run on, one call per goroutine.  While the other
\* goroutine is in such a call or holds its result, the configuration differs
\* from that call's at most in the order and multiplicity of the names.
ListInitCall(t) ==
  /\ ~upstream[t].checked
  /\ \E cf \in ListConfigs :
       /\ \A u \in Threads \ {t} : pc[u] # "idle" => SameNames(cf, c[u])
       /\ InitCallWith(t, <<cf>>)
       /\ upstream' = [upstream EXCEPT ![t] = Upstream(cf)]
  /\ UNCHANGED spanVars

NextLists ==
  \E t \in Threads :
    \/ ListInitCall(t)
    \/ InitResolved(t) \/ InitLoop(t)
    \/ InitRegisterNoop(t) \/ InitRegister(t)
    \/ Return(t)

SpecLists == Init /\ [][NextLists]_vars

SpecRecordError == InitRecordError /\ [][NextRecordError]_vars

\* -------------------------------------------------------------- properties
SdPcs == {"sd_lock", "sd_assert", "sd_flush", "sd_shutdown"}
\* Where a ShutdownTraceProvider call is between taking the lock and returning.
SdHolding == {"sd_assert", "sd_flush", "sd_shutdown"}
Finished(t, name) == pc[t] = "done" /\ op[t] = name
\* Goroutine t takes the step that ends its call.
Finishes(t, name) == pc[t] # "done" /\ pc'[t] = "done" /\ op[t] = name
GotTracer(t) == Finished(t, "NewTracer") /\ res[t].kind = "tracer"

\* C1: an InitializeTraceProvider call that returns an error writes nothing to
\* the registry (the registered provider, and the set of providers, are the
\* same after its return as before), and every step that changes the registry
\* is the return of an InitializeTraceProvider call with nil.
C1_ErrorLeavesRegistry ==
  [][/\ \A t \in Threads :
          Finishes(t, "InitializeTraceProvider") /\ res'[t].kind = "error"
            => /\ singletonTraceProvider' = singletonTraceProvider
               /\ providers' = providers
     /\ singletonTraceProvider' # singletonTraceProvider
          => \E t \in Threads :
               Finishes(t, "InitializeTraceProvider") /\ res'[t] = Ok]_vars

\* An Initialize call has failed on an unsupported exporter name while a
\* provider was registered; another has failed while the registry was absent.
C1_Witness ==
  \E t \in Threads :
    /\ Finished(t, "InitializeTraceProvider")
    /\ res[t] = Err("unsupported exporter found", "jaeger")
    /\ singletonTraceProvider = 1
    /\ providers[1].kind = "sdk"

\* C2: a NewTracer call that starts after an InitializeTraceProvider call has
\* returned nil gets its tracer from the provider that call registered or from
\* one registered later: never from an earlier provider, never the standalone
\* no-op tracer.
C2_NoStaleTracer ==
  \A t \in Threads :
    GotTracer(t) /\ floor[t] > 0
      => res[t].from = "provider" /\ res[t].provider >= floor[t]

\* A NewTracer call that started after the second successful Initialize has
\* its tracer, from the second provider.
C2_Witness ==
  \E t \in Threads :
    GotTracer(t) /\ floor[t] = 2 /\ res[t] = ProviderTracer(2)

\* C3: the provider a NewTracer call reads is one that was registered whole:
\* the no-op provider, or an SDK provider holding one exporter for each entry
\* of its configuration's exporter list, in order.
C3_NoPartialProvider ==
  \A t \in Threads :
    GotTracer(t) /\ res[t].from = "provider"
      => /\ res[t].provider \in 1..Len(providers)
         /\ LET p == providers[res[t].provider]
            IN p.kind = "sdk" => p.exporters = p.wanted /\ Len(p.exporters) >= 1

\* A NewTracer call has read a provider with two exporters while an
\* Initialize call of another goroutine is under way.
C3_Witness ==
  \E t, u \in Threads :
    /\ GotTracer(t) /\ res[t].from = "provider"
    /\ Len(providers[res[t].provider].exporters) = 2
    /\ pc[u] \in {"init_loop", "init_lock"}

\* C4 as the spec states it: a NewTracer call waiting for the registry lock
\* while a Shutdown call is flushing or shutting down can take the lock.
C4_Original ==
  \A t, u \in Threads :
    pc[t] = "nt_rlock" /\ pc[u] \in {"sd_flush", "sd_shutdown"}
      => CanRLock(traceProviderLock)

\* C4 amended: ShutdownTraceProvider holds the registry lock exclusively from
\* its type assertion to its return, so no NewTracer call reads the registry
\* meanwhile and a NewTracer call waiting for the lock cannot take it; and a
\* waiting NewTracer call is held up by nothing else.
C4_NewTracerWaitsForShutdown ==
  /\ \A u \in Threads :
       pc[u] \in SdHolding
         => /\ traceProviderLock.w = u
            /\ ~CanRLock(traceProviderLock)
            /\ \A t \in Threads : pc[t] # "nt_read"
  /\ \A t \in Threads :
       pc[t] = "nt_rlock" /\ (\A u \in Threads : pc[u] \notin SdHolding)
         => CanRLock(traceProviderLock)

\* A NewTracer call is waiting for the lock while a Shutdown call flushes.
C4_Witness ==
  \E t, u \in Threads : pc[t] = "nt_rlock" /\ pc[u] = "sd_flush"

\* C5 as the spec states it: every ShutdownTraceProvider call on a registered
\* SDK provider returns nil, and one that finds the provider already shut down
\* adds nothing to what the exporters observed.
C5_Original ==
  \A t \in Threads :
    Finished(t, "ShutdownTraceProvider") /\ sd[t].target # 0
      => /\ res[t] = Ok
         /\ sd[t].already => Effects(providers[sd[t].target]) = sd[t].seen

\* C5 amended: a ShutdownTraceProvider call on a registered SDK provider
\* returns an error exactly when the provider's Shutdown failed; a call that
\* finds the provider already shut down returns nil and adds nothing to what
\* the exporters observed.
C5_SecondShutdownIsNoop ==
  \A t \in Threads :
    Finished(t, "ShutdownTraceProvider") /\ sd[t].target # 0
      => /\ res[t].kind = "error" <=> sd[t].shutdownErr
         /\ sd[t].already
              => res[t] = Ok /\ Effects(providers[sd[t].target]) = sd[t].seen

\* A second Shutdown call on the same provider has returned.
C5_Witness ==
  \E t \in Threads :
    /\ Finished(t, "ShutdownTraceProvider")
    /\ sd[t].target # 0 /\ sd[t].already /\ sd[t].shutdownCalled
    /\ sd[t].seen = 2

ResourceError == Err("problem creating tracer provider resources", "")
\* Goroutine t's finished call is an Initialize with an empty exporter list.
FinishedEmptyInit(t) ==
  /\ Finished(t, "InitializeTraceProvider")
  /\ c[t] # NilConfig
  /\ Len(c[t].OtelExporters) = 0

\* C6 as the spec states it: every InitializeTraceProvider call whose
\* configuration has an empty exporter list returns nil.
C6_Original == \A t \in Threads : FinishedEmptyInit(t) => res[t] = Ok

\* C6 amended: an InitializeTraceProvider call whose configuration has an
\* empty exporter list fails only when resource.Merge fails; otherwise it
\* returns nil, has built no exporter, and has registered a no-op provider in
\* place of whatever was registered; and a NewTracer call that starts after
\* its return, while no later provider has been constructed, gets a tracer
\* delegated from that no-op provider.
C6_EmptyListRegistersNoop ==
  /\ \A t \in Threads :
       FinishedEmptyInit(t)
         => /\ res[t] \in {Ok, ResourceError}
            /\ opts[t] = <<>>
            /\ res[t] = ResourceError => made[t] = 0
            /\ res[t] = Ok
                 => /\ made[t] \in 1..Len(providers)
                    /\ providers[made[t]] = NoopProvider
                    /\ singletonTraceProvider >= made[t]
  /\ \A t \in Threads :
       /\ GotTracer(t)
       /\ floor[t] > 0
       /\ floor[t] = Len(providers)
       /\ providers[floor[t]].kind = "noop"
       => res[t] = ProviderTracer(floor[t])

\* An Initialize call with an empty list has replaced provider 1 by the no-op
\* provider 2, and a NewTracer call has got its tracer from it.
C6_Witness ==
  \E t, u \in Threads :
    /\ FinishedEmptyInit(t) /\ res[t] = Ok /\ made[t] = 2
    /\ providers[1].kind = "sdk"
    /\ GotTracer(u) /\ floor[u] = 2 /\ res[u] = ProviderTracer(2)

\* C7: NewTracer always returns a tracer, never nil: the standalone no-op
\* tracer exactly when the registry is absent, which is exactly when no
\* InitializeTraceProvider call has returned nil yet, and otherwise a tracer
\* delegated from the registered provider, be it no-op, live or shut down.
C7_NewTracerNeverNil ==
  /\ [](singletonTraceProvider = 0 <=> okSeq = 0)
  /\ [](\A t \in Threads : GotTracer(t) => res[t].from # "nil")
  /\ [][\A t \in Threads :
          Finishes(t, "NewTracer")
            => /\ res'[t].kind = "tracer"
               /\ res'[t].from \in {"standalone-noop", "provider"}
               /\ res'[t].from = "standalone-noop" <=> singletonTraceProvider = 0
               /\ res'[t].from = "provider"
                    => /\ res'[t].provider = singletonTraceProvider
                       /\ singletonTraceProvider \in 1..Len(providers)]_vars

\* One goroutine holds the standalone no-op tracer it got while the registry
\* was absent, the other a tracer delegated from an SDK provider that had been
\* shut down.
C7_Witness ==
  \E t, u \in Threads :
    /\ GotTracer(t) /\ res[t] = NoopTracer
    /\ GotTracer(u) /\ res[u].from = "provider"
    /\ providers[res[u].provider].kind = "sdk"
    /\ providers[res[u].provider].shut

\* C8: a ShutdownTraceProvider call that finds the registry absent or holding
\* the no-op provider returns nil at its type assertion without calling
\* ForceFlush or Shutdown and leaves the registry and every provider as they
\* were; no no-op provider is ever flushed or shut down.
C8_ShutdownWithoutSdkProvider ==
  /\ [](\A p \in 1..Len(providers) :
          providers[p].kind = "noop" => providers[p] = NoopProvider)
  /\ [](\A t \in Threads :
          pc[t] \in {"sd_flush", "sd_shutdown"}
            => providers[sd[t].target].kind = "sdk")
  /\ [][\A t \in Threads :
          /\ pc[t] = "sd_assert"
          /\ pc'[t] # pc[t]
          /\ \/ singletonTraceProvider = 0
             \/ providers[singletonTraceProvider].kind = "noop"
          => /\ pc'[t] = "done"
             /\ res'[t] = Ok
             /\ sd'[t] = NoSd
             /\ singletonTraceProvider' = singletonTraceProvider
             /\ providers' = providers]_vars

\* A Shutdown call has returned nil without a target while the no-op provider
\* was registered.
C8_Witness ==
  \E t \in Threads :
    /\ Finished(t, "ShutdownTraceProvider")
    /\ res[t] = Ok /\ sd[t] = NoSd
    /\ singletonTraceProvider # 0
    /\ providers[singletonTraceProvider].kind = "noop"

\* C9: no step of ShutdownTraceProvider assigns the registry; when the call
\* returns, with nil or with an error, the registry holds the provider it
\* acted on, on which it has called Shutdown; and the registry, once it holds
\* a provider, never goes back to absent.
C9_ShutdownKeepsRegistry ==
  /\ [][singletonTraceProvider # 0 => singletonTraceProvider' # 0]_vars
  /\ [][\A t \in Threads :
          pc[t] \in SdPcs /\ pc'[t] # pc[t]
            => singletonTraceProvider' = singletonTraceProvider]_vars
  /\ [][\A t \in Threads :
          Finishes(t, "ShutdownTraceProvider") /\ sd'[t].target # 0
            => /\ singletonTraceProvider' = sd'[t].target
               /\ sd'[t].shutdownCalled]_vars

\* A Shutdown call has returned an error; the registry still holds the
\* provider it shut down, and a NewTracer call of the other goroutine holds a
\* tracer delegated from that provider.
C9_Witness ==
  \E t, u \in Threads :
    /\ Finished(t, "ShutdownTraceProvider")
    /\ res[t].kind = "error"
    /\ singletonTraceProvider = sd[t].target
    /\ providers[sd[t].target].shut
    /\ GotTracer(u) /\ res[u] = ProviderTracer(sd[t].target)

\* C10: a provider changes only in a step that finds it registered and leaves
\* it registered: the swap of InitializeTraceProvider does not touch the
\* provider it replaces, and nothing ever flushes or shuts down a provider
\* that is no longer registered.
C10_ReplacedProviderUntouched ==
  [][\A p \in 1..Len(providers) :
       p # singletonTraceProvider \/ singletonTraceProvider' # singletonTraceProvider
         => providers'[p] = providers[p]]_vars

\* Provider 1 was replaced while live; provider 2 has since been shut down and
\* provider 1 is still live and unflushed.
C10_Witness ==
  /\ Len(providers) = 2
  /\ singletonTraceProvider = 2
  /\ providers[2].kind = "sdk" /\ providers[2].shut
  /\ providers[1] = NewTracerProvider(providers[1].exporters, providers[1].wanted)
  /\ providers[1].kind = "sdk"

\* What the last RecordError call appended to the log of its span.
Appended ==
  IF re.span = NilSpan THEN <<>>
  ELSE SubSeq(spans[re.span].log, Len(re.before) + 1, Len(spans[re.span].log))
\* The last RecordError call was handed a span that is not nil and is recording.
OnRecordingSpan == re.span # NilSpan /\ spans[re.span].recording

\* C11: RecordError never fails: for every span (nil, not recording,
\* recording) and every error, nil included, the call returns; it never
\* panics.
C11_Original == re.n > 0 => re.outcome = "returned"

\* C12: RecordError mutates the span exactly when it is not nil and
\* recording: then it calls RecordError(err) and after it SetStatus(Error, the
\* error's message) on the span and returns; on a nil span it makes no call,
\* on a span that is not recording none but IsRecording.
C12_Original ==
  re.n > 0 =>
    IF OnRecordingSpan
      THEN /\ re.outcome = "returned"
           /\ Len(Appended) = 3
           /\ Appended[1] = IsRecordingCall
           /\ Appended[2] = RecordErrorCall(re.err)
           /\ Appended[3].method = "SetStatus"
           /\ Appended[3].code = "Error"
           /\ re.err # NilErr => Appended[3].description = re.err.msg
      ELSE /\ re.outcome = "returned"
           /\ Appended = IF re.span = NilSpan THEN <<>> ELSE <<IsRecordingCall>>

\* C13: a ShutdownTraceProvider call that finds an SDK provider registered
\* goes on to ForceFlush; it calls ForceFlush first and Shutdown after it,
\* whether or not ForceFlush failed; and it returns the wrapped error exactly
\* when Shutdown failed, nil otherwise.
C13_FlushThenShutdown ==
  /\ [](\A t \in Threads :
          /\ pc[t] = "sd_flush"
               => sd[t].target # 0 /\ ~sd[t].flushCalled /\ ~sd[t].shutdownCalled
          /\ pc[t] = "sd_shutdown"
               => sd[t].target # 0 /\ sd[t].flushCalled /\ ~sd[t].shutdownCalled
          /\ Finished(t, "ShutdownTraceProvider") /\ sd[t].target # 0
               => /\ sd[t].flushCalled /\ sd[t].shutdownCalled
                  /\ res[t] = IF sd[t].shutdownErr
                                THEN Err("problem shutting down trace provider", "")
                                ELSE Ok)
  /\ [][\A t \in Threads :
          /\ pc[t] = "sd_assert" /\ pc'[t] # pc[t]
          /\ singletonTraceProvider # 0
          /\ providers[singletonTraceProvider].kind = "sdk"
          => pc'[t] = "sd_flush" /\ sd'[t].target = singletonTraceProvider]_vars

\* A Shutdown call whose ForceFlush failed and whose Shutdown did not has
\* returned nil.
C13_Witness ==
  \E t \in Threads :
    /\ Finished(t, "ShutdownTraceProvider")
    /\ sd[t].flushErr /\ ~sd[t].shutdownErr
    /\ sd[t].shutdownCalled
    /\ res[t] = Ok

\* C14: when InitializeTraceProvider has resolved c, c is its first argument
\* if it was given one, whatever defaultConfig holds, and otherwise what
\* defaultConfig pointed to when it was read under the read lock: the struct
\* of the most recent NewConfig call, each NewConfig call storing a pointer
\* newer than all before it, or nil if there was none.  With c nil, from a nil
\* argument or from a nil defaultConfig, the call returns the error without
\* reading a field of c, building an exporter or touching the registry.
C14_ConfigResolution ==
  /\ [](\A t \in Threads :
          pc[t] = "init_resolved"
            => IF Len(cfgSrc[t].args) > 0
                 THEN /\ c[t] = cfgSrc[t].args[1]
                      /\ cfgSrc[t].ptr = 0
                      /\ t \notin configLock.r
                 ELSE /\ cfgSrc[t].ptr = defaultConfig
                      /\ c[t] = NilConfig <=> defaultConfig = 0
                      /\ t \in configLock.r)
  /\ [][\A t \in Threads :
          Finishes(t, "NewConfig")
            => /\ res'[t] = [kind |-> "config", ptr |-> defaultConfig']
               /\ defaultConfig' > defaultConfig]_vars
  /\ [][\A t \in Threads :
          pc[t] = "init_resolved" /\ pc'[t] # pc[t] /\ c[t] = NilConfig
            => /\ pc'[t] = "done"
               /\ res'[t] = Err("no trace provider configuration provided or found", "")
               /\ opts'[t] = <<>> /\ idx'[t] = 0 /\ made'[t] = 0
               /\ singletonTraceProvider' = singletonTraceProvider
               /\ providers' = providers
               /\ traceProviderLock' = traceProviderLock]_vars

\* After two NewConfig calls one Initialize call has resolved the second
\* default configuration and another, given an argument, that argument.
C14_Witness ==
  \E t, u \in Threads :
    /\ defaultConfig = 2
    /\ pc[t] = "init_resolved" /\ cfgSrc[t].args = <<>> /\ cfgSrc[t].ptr = 2
    /\ c[t] # NilConfig
    /\ pc[u] = "init_resolved" /\ Len(cfgSrc[u].args) = 1 /\ c[u] # NilConfig

\* Where an InitializeTraceProvider call is before it asks for the registry
\* lock: resolving c, merging the resource, building exporters.
InitBuilding == {"init_cfg_rlock", "init_resolved", "init_loop"}

\* C15: an InitializeTraceProvider call holds the registry lock at no point
\* before its registration step, so a NewTracer call waiting for the lock
\* while an Initialize call builds exporters can take it unless a Shutdown
\* call holds it; a NewTracer call that reads the registry meanwhile gets the
\* tracer of the provider registered before, or the standalone no-op tracer,
\* the building call having constructed no provider yet; and Initialize asks
\* for the lock only with one exporter built for every entry of the list.
C15_NoLockWhileBuilding ==
  /\ [](\A t \in Threads :
          pc[t] \in InitPcs
            => traceProviderLock.w # t /\ t \notin traceProviderLock.r)
  /\ [](\A t, u \in Threads :
          /\ pc[t] = "nt_rlock" /\ pc[u] \in InitBuilding
          /\ \A v \in Threads : pc[v] \notin SdHolding
          => CanRLock(traceProviderLock))
  /\ [](\A u \in Threads :
          /\ pc[u] \in InitBuilding => made[u] = 0
          /\ pc[u] = "init_lock" => Len(opts[u]) = Len(c[u].OtelExporters)
          /\ pc[u] = "init_noop_lock" => opts[u] = <<>>)
  /\ [][\A t, u \in Threads :
          Finishes(t, "NewTracer") /\ pc[u] \in InitBuilding
            => /\ res'[t] = TracerFor(singletonTraceProvider)
               /\ singletonTraceProvider \in 0..Len(providers)
               /\ pc'[u] = pc[u] /\ opts'[u] = opts[u]]_vars

\* A NewTracer call has returned the tracer of provider 1 while an
\* Initialize call of the other goroutine is in its range loop with one of
\* two exporters built.
C15_Witness ==
  \E t, u \in Threads :
    /\ GotTracer(t) /\ res[t] = ProviderTracer(1)
    /\ pc[u] = "init_loop" /\ Len(opts[u]) = 1
    /\ Len(c[u].OtelExporters) = 2
    /\ singletonTraceProvider = 1

\* The error r is a failure of the SDK (resource.Merge, an exporter's
\* constructor), as opposed to one decided by the configuration.
SdkFailure(r) ==
  /\ r.kind = "error"
  /\ \/ r.msg = "problem creating tracer provider resources"
     \/ r.msg = "problem creating tracer console exporter"
     \/ /\ r.msg = "problem creating tracer otlp exporter"
        /\ r.arg.msg = "problem creating otlp exporter"
\* The exporters of the provider the finished Initialize call of t registered.
ExportersOf(t) == providers[made[t]].exporters
\* The two goroutines hold the results of Initialize calls whose
\* configurations differ at most in the order and multiplicity of the exporter
\* names, and the SDK failed neither.
ComparableInits(t, u) ==
  /\ t # u
  /\ Finished(t, "InitializeTraceProvider")
  /\ Finished(u, "InitializeTraceProvider")
  /\ SameNames(c[t], c[u])
  /\ ~SdkFailure(res[t]) /\ ~SdkFailure(res[u])

\* C16 as the spec states it: two such calls both succeed or both fail, and
\* on success each has registered a provider with one exporter for each
\* distinct name of its list.
C16_Original ==
  \A t, u \in Threads :
    ComparableInits(t, u)
      => /\ res[t] = Ok <=> res[u] = Ok
         /\ res[t] = Ok
              => /\ Names(ExportersOf(t)) = Names(ExportersOf(u))
                 /\ Len(ExportersOf(t)) = Cardinality(Names(c[t].OtelExporters))

\* C16 amended: two such calls both succeed or both fail, and on success each
\* has registered a provider with one exporter for each entry of its list, in
\* list order: the two providers have exporters of the same set of names, and
\* a name that occurs twice in a list has two exporters.
C16_OneExporterPerEntry ==
  \A t, u \in Threads :
    ComparableInits(t, u)
      => /\ res[t] = Ok <=> res[u] = Ok
         /\ res[t] = Ok
              => /\ Names(ExportersOf(t)) = Names(ExportersOf(u))
                 /\ ExportersOf(t) = c[t].OtelExporters

\* One call given <<"console">> and one given <<"console", "console">> have
\* both succeeded, the second with two exporters.
C16_Witness ==
  \E t, u \in Threads :
    /\ ComparableInits(t, u)
    /\ res[t] = Ok /\ res[u] = Ok
    /\ c[t].OtelExporters = <<"console">>
    /\ c[u].OtelExporters = <<"console", "console">>
    /\ ExportersOf(u) = <<"console", "console">>

\* Goroutine t is in, or holds the result of, an Initialize call on whose
\* exporter list the loader's checks were run.
CheckedInit(t) ==
  op[t] = "InitializeTraceProvider" /\ pc[t] # "idle" /\ upstream[t].checked
\* The call of t has called newOtlpExporter, which reads c.OtlpEndpointKind:
\* it has built an OTLP exporter or returned the error of one.
ReadsOtlpKind(t) ==
  \/ "otlp" \in Names(opts[t])
  \/ res[t].kind = "error" /\ res[t].msg = "problem creating tracer otlp exporter"
\* It has read c.OtlpHost and c.OtlpPort too, which only the "http" and "grpc"
\* cases of newOtlpExporter do.
ReadsOtlpEndpoint(t) ==
  ReadsOtlpKind(t) /\ c[t].OtlpEndpointKind \in {"http", "grpc"}
UnsupportedKind(r) ==
  /\ r.kind = "error" /\ r.msg = "problem creating tracer otlp exporter"
  /\ r.arg.msg = "unsupported otlp endpoint kind"
\* What C17 says of the two checks and of the 'unsupported exporter' error.
ChecksAgree(t) ==
  LET list == c[t].OtelExporters
      accepted == upstream[t].valid = Ok
  IN /\ accepted <=> Names(list) \subseteq {"console", "otlp"}
     /\ ~accepted
          => /\ upstream[t].valid.msg = "invalid exporter value"
             /\ upstream[t].valid.arg \in Names(list) \ {"console", "otlp"}
     /\ upstream[t].otlp.err = Ok
     /\ upstream[t].otlp.value <=> "otlp" \in Names(list)
     /\ Finished(t, "InitializeTraceProvider")
          => /\ res[t].kind = "error" /\ res[t].msg = "unsupported exporter found"
                  => ~accepted
             /\ ~accepted /\ ~SdkFailure(res[t]) /\ ~UnsupportedKind(res[t])
                  => res[t] = Err("unsupported exporter found", upstream[t].valid.arg)

\* C17 as the spec states it: the validator accepts a list exactly when all
\* its names are "console" or "otlp", and Initialize returns the 'unsupported
\* exporter' error for no accepted list and, unless it fails before, for
\* every other; the load condition is true exactly when "otlp" is in the list,
\* and a finished Initialize call that no SDK failure cut short, with an
\* endpoint kind of "http" or "grpc", has read the OTLP endpoint kind, host
\* and port exactly when it is true.
C17_Original ==
  \A t \in Threads :
    CheckedInit(t)
      => /\ ChecksAgree(t)
         /\ /\ Finished(t, "InitializeTraceProvider")
            /\ ~SdkFailure(res[t])
            /\ c[t].OtlpEndpointKind \in {"http", "grpc"}
            => /\ upstream[t].otlp.value <=> ReadsOtlpKind(t)
               /\ upstream[t].otlp.value <=> ReadsOtlpEndpoint(t)

\* C17 amended: the same of the validator and of the load condition; an
\* Initialize call reads the OTLP endpoint kind only if the load condition is
\* true, and does read it if moreover the validator accepts the list and the
\* SDK fails no call; it reads the OTLP host and port only if it reads the
\* kind and the kind is "http" or "grpc".
C17_ChecksAgreeWithDispatch ==
  \A t \in Threads :
    CheckedInit(t)
      => /\ ChecksAgree(t)
         /\ ReadsOtlpKind(t) => upstream[t].otlp.value
         /\ ReadsOtlpEndpoint(t)
              => upstream[t].otlp.value /\ c[t].OtlpEndpointKind # "udp"
         /\ /\ Finished(t, "InitializeTraceProvider")
            /\ upstream[t].otlp.value /\ upstream[t].valid = Ok
            /\ ~SdkFailure(res[t])
            => ReadsOtlpKind(t)

\* A call given <<"otlp", "jaeger">>, which the validator rejects for
\* "jaeger" and for which the load condition is true, has built the OTLP
\* exporter and returned the 'unsupported exporter' error.
C17_Witness ==
  \E t \in Threads :
    /\ CheckedInit(t) /\ Finished(t, "InitializeTraceProvider")
    /\ c[t].OtelExporters = <<"otlp", "jaeger">>
    /\ upstream[t].valid = Err("invalid exporter value", "jaeger")
    /\ upstream[t].otlp.value
    /\ ReadsOtlpEndpoint(t)
    /\ res[t] = Err("unsupported exporter found", "jaeger")

\* Goroutine t holds lock l, for writing or for reading.
Holds(l, t) == l.w = t \/ t \in l.r
\* Where a goroutine waits for the registry lock as a writer, and for the
\* configuration lock as a writer.
RegistryWriterPcs == {"sd_lock", "init_lock", "init_noop_lock"}
ConfigWriterPcs == {"nc_lock"}
\* Goroutine t, inside a call, can take its next step even if every goroutine
\* waiting for a lock as a writer keeps new readers out of it, as a waiting
\* Lock of sync.RWMutex does.
CanStep(t) ==
  CASE pc[t] = "nt_rlock" ->
         /\ CanRLock(traceProviderLock)
         /\ \A u \in Threads : pc[u] \notin RegistryWriterPcs
    [] pc[t] \in RegistryWriterPcs -> CanLock(traceProviderLock)
    [] pc[t] = "init_cfg_rlock" ->
         /\ CanRLock(configLock)
         /\ \A u \in Threads : pc[u] \notin ConfigWriterPcs
    [] pc[t] \in ConfigWriterPcs -> CanLock(configLock)
    [] OTHER -> TRUE
\* The steps of goroutine t inside a call, up to its return.
StepOf(t) ==
  \/ NcSet(t)
  \/ NtRLock(t) \/ NtRead(t)
  \/ InitCfgRLock(t) \/ InitResolved(t) \/ InitLoop(t)
  \/ InitRegisterNoop(t) \/ InitRegister(t)
  \/ SdLock(t) \/ SdAssert(t) \/ SdFlush(t) \/ SdShutdown(t)
Running(t) == pc[t] \notin {"idle", "done"}

\* C18: no state is a deadlock: whenever some goroutine is inside a call, some
\* goroutine inside a call can take its next step, waiting writers keeping
\* readers out or not.  A goroutine outside a call holds no lock, every return
\* path having released what the call acquired; the registry lock is held
\* only by ShutdownTraceProvider (writing) and NewTracer (reading), neither of
\* which asks for another lock; the configuration lock is held only by an
\* InitializeTraceProvider call without argument (reading), the one call that
\* asks for the registry lock while holding another.
C18_NoDeadlock ==
  /\ (\E t \in Threads : Running(t))
       => \E t \in Threads : Running(t) /\ CanStep(t) /\ ENABLED StepOf(t)
  /\ \A t \in Threads :
       /\ pc[t] \in {"idle", "done"}
            => ~Holds(traceProviderLock, t) /\ ~Holds(configLock, t)
       /\ traceProviderLock.w = t => pc[t] \in SdHolding
       /\ t \in traceProviderLock.r => pc[t] = "nt_read"
       /\ configLock.w # t
       /\ t \in configLock.r
            => pc[t] \in {"init_resolved", "init_loop", "init_lock", "init_noop_lock"}
       /\ Holds(traceProviderLock, t) => ~Holds(configLock, t)
       /\ Running(t) /\ pc[t] \notin RegistryWriterPcs \cup ConfigWriterPcs
                     /\ pc[t] \notin {"nt_rlock", "init_cfg_rlock"}
            => ENABLED StepOf(t)

\* An Initialize call without argument holds the configuration lock and
\* waits for the registry lock, which a Shutdown call holds while it flushes.
C18_Witness ==
  \E t, u \in Threads :
    /\ pc[t] = "init_lock" /\ t \in configLock.r
    /\ pc[u] = "sd_flush" /\ traceProviderLock.w = u
    /\ ~CanStep(t) /\ CanStep(u)

\* Where a ShutdownTraceProvider call is from the start of its flush to the
\* end of its shutdown step.
SdWorking == {"sd_flush", "sd_shutdown"}

\* C19: while a ShutdownTraceProvider call is between the start of its flush
\* and the end of its shutdown step it holds the registry lock alone: no other
\* Shutdown call is past its Lock, no NewTracer call reads the registry or
\* returns, no Initialize call registers a provider, and only its own steps
\* change the provider it acts on.  That provider is the registered one
\* throughout: the one it flushes is the one it shuts down, and it is still
\* registered when the call returns.
C19_ShutdownIsExclusive ==
  /\ [](\A t \in Threads :
          pc[t] \in SdWorking
            => /\ traceProviderLock = Locked(FreeLock, t)
               /\ singletonTraceProvider = sd[t].target
               /\ \A u \in Threads \ {t} : pc[u] \notin SdHolding \cup {"nt_read"})
  /\ [][\A t \in Threads :
          pc[t] \in SdWorking
            => /\ singletonTraceProvider' = singletonTraceProvider
               /\ Len(providers') = Len(providers)
               /\ sd'[t].target = sd[t].target
               /\ pc'[t] = pc[t] => providers' = providers
               /\ \A u \in Threads \ {t} :
                    /\ ~Finishes(u, "NewTracer")
                    /\ ~Finishes(u, "ShutdownTraceProvider")
                    /\ ~(Finishes(u, "InitializeTraceProvider") /\ res'[u] = Ok)
               /\ Finishes(t, "ShutdownTraceProvider")
                    => /\ singletonTraceProvider' = sd[t].target
                       /\ sd'[t].flushCalled /\ sd'[t].shutdownCalled]_vars

\* A Shutdown call has flushed and is about to shut down while an Initialize
\* call with all its exporters built waits for the registry lock.
C19_Witness ==
  \E t, u \in Threads :
    /\ pc[t] = "sd_shutdown" /\ sd[t].flushCalled
    /\ pc[u] = "init_lock"

\* The error InitializeTraceProvider returns for a failing entry is that
\* entry's: the wrapped error of its constructor, or its unsupported name.
ErrorOfEntry(r, exporter) ==
  /\ r.kind = "error"
  /\ CASE exporter = "console" -> r.msg = "problem creating tracer console exporter"
       [] exporter = "otlp" -> r.msg = "problem creating tracer otlp exporter"
       [] OTHER -> r = Err("unsupported exporter found", exporter)

\* C20: the range loop builds the exporters in list order, one entry per
\* step; the step at which an entry fails ends the call with that entry's
\* error, none of the later entries having been visited, and constructs no
\* provider and leaves the registry as it is.  A provider is only ever
\* constructed by the step of an Initialize call that returns nil, from the
\* exporters that call built, and its exporters never change: those a failed
\* call had built are in no provider, so no ForceFlush or Shutdown, which act
\* on a provider, reaches them, and they are dropped with the call's frame.
C20_FirstFailureAborts ==
  /\ [](\A t \in Threads :
          /\ pc[t] \in {"init_loop", "init_lock"}
               => /\ Len(opts[t]) = idx[t] - 1
                  /\ opts[t] = SubSeq(c[t].OtelExporters, 1, idx[t] - 1)
          /\ pc[t] = "init_loop" => idx[t] <= Len(c[t].OtelExporters)
          /\ Finished(t, "InitializeTraceProvider") /\ res[t].kind = "error"
               => made[t] = 0)
  /\ [][\A t \in Threads :
          pc[t] = "init_loop" /\ Finishes(t, "InitializeTraceProvider")
            => /\ ErrorOfEntry(res'[t], c[t].OtelExporters[idx[t]])
               /\ opts'[t] = opts[t] /\ idx'[t] = idx[t]
               /\ providers' = providers
               /\ singletonTraceProvider' = singletonTraceProvider]_vars
  /\ [][/\ Len(providers') >= Len(providers)
        /\ \A p \in 1..Len(providers) :
             providers'[p].exporters = providers[p].exporters
        /\ Len(providers') > Len(providers)
             => /\ Len(providers') = Len(providers) + 1
                /\ \E u \in Threads :
                     /\ Finishes(u, "InitializeTraceProvider") /\ res'[u] = Ok
                     /\ providers'[Len(providers')].exporters = opts[u]
        /\ \A t \in Threads :
             /\ Finished(t, "InitializeTraceProvider") /\ res[t].kind = "error"
             /\ pc'[t] # pc[t]
             => opts'[t] = <<>> /\ providers' = providers]_vars

\* An Initialize call given <<"console", "jaeger">> has built the console
\* exporter and returned the error of "jaeger"; the provider registered
\* before, of one exporter, has since been shut down by the other goroutine.
C20_Witness ==
  \E t, u \in Threads :
    /\ Finished(t, "InitializeTraceProvider")
    /\ res[t] = Err("unsupported exporter found", "jaeger")
    /\ opts[t] = <<"console">> /\ made[t] = 0
    /\ Finished(u, "ShutdownTraceProvider") /\ sd[u].shutdownCalled
    /\ Len(providers) = 1 /\ Len(providers[1].exporters) = 1

====
